---- MODULE Spec2Model ----
(***************************************************************************)
(* Model of the periodic publish job of the Robonomics integration         *)
(* (custom_components/robonomics/get_states.py).                           *)
(*                                                                         *)
(* get_and_send_data is a coroutine.  Each invocation is a publish cycle   *)
(* with its own local variables (cycle[i]); the staging directory, the     *)
(* configuration cache directory, hass.data, the content store and the     *)
(* ledger are shared.  Every statement that can raise is one action; its   *)
(* outcome (success or exception) is chosen nondeterministically, and an   *)
(* exception transfers control to the except clause of the try block that  *)
(* encloses the statement, as in the source.                               *)
(***************************************************************************)
EXTENDS Integers, Sequences, FiniteSets, TLC

VARIABLES
    cycle,            \* locals of each invocation of get_and_send_data
    data_dir,         \* files in ~/DATA_PATH (telemetry staging directory)
    config_file,      \* ~/DATA_CONFIG_PATH/config (plaintext document)
    config_encrypted, \* files "config_encrypted*" in ~/DATA_CONFIG_PATH
    hass_data,        \* hass.data[DOMAIN][IPFS_HASH_CONFIG], {} when the key is absent
    config_topic,     \* ledger: address the twin's config topic points to, {} when unset
    ticks,            \* timer ticks so far
    prev,             \* summary of the last finished cycle of this process, {} when none
    args,             \* what a function examined on its own is applied to
    result            \* what it returned, {} before it has returned

vars == <<cycle, data_dir, config_file, config_encrypted, hass_data,
          config_topic, ticks, prev, args, result>>

\* a call of one function examined on its own
call == <<args, result>>

globals == <<data_dir, config_file, config_encrypted, hass_data,
             config_topic, ticks, prev, call>>

(***************************************************************************)
(* Bounds                                                                  *)
(***************************************************************************)
MaxCycles == 2
MaxOverlapTicks == 2
NumInvocations == 2
NumServices == 1
NumEntities == 3
MaxHistory == 2

\* what dashboard.async_load and the devices and entities loop can return
Dashboards == {"lovelace"}
Snapshots == {"devices"}

Invocations == 1..NumInvocations
TwinId == 1

(***************************************************************************)
(* Data                                                                    *)
(***************************************************************************)
\* current_config = {} (get_states.py line 151): a document with no keys
EmptyDoc == [k \in {} |-> 0]

\* new_config (lines 153-157)
NewConfig(services_list, config_dashboard, twin_id) ==
    [services |-> services_list, dashboard |-> config_dashboard, twin_id |-> twin_id]

\* encrypt_message(plaintext, sender_kp, sender_kp.public_key): the ciphertext
\* depends on the plaintext and on a nonce that is fresh for every call
encrypt_message(plaintext, nonce) == [pt |-> plaintext, nonce |-> nonce]

\* address the content store gives to a blob
ContentAddress(blob) == [cid |-> blob]

\* File names are sequences of characters.
DataMarker == <<"d", "a", "t", "a">>
ConfigMarker == <<"c", "o", "n", "f", "i", "g", "_",
                  "e", "n", "c", "r", "y", "p", "t", "e", "d">>

\* write_data_to_file(data, path, config): a new file whose name is the type
\* marker followed by a disambiguating suffix
write_data_to_file(data, suffix, config) ==
    [name    |-> (IF config THEN ConfigMarker ELSE DataMarker) \o <<ToString(suffix)>>,
     content |-> data]

\* name[:k], the slice of at most k leading characters
Slice(name, k) == SubSeq(name, 1, IF Len(name) < k THEN Len(name) ELSE k)

\* marker in name, the substring test
In(marker, name) ==
    \E k \in 1..(Len(name) - Len(marker) + 1) :
       SubSeq(name, k, k + Len(marker) - 1) = marker

\* faulty variant: the marker is looked for anywhere in the name
AltIsTelemetry(file) == In(DataMarker, file.name)

\* datafile[:4] == "data" (line 237)
IsTelemetry(file) == Slice(file.name, 4) = DataMarker

\* "config_encrypted" in name_file (line 172)
IsEncryptedConfig(file) == In(ConfigMarker, file.name)

(***************************************************************************)
(* Exceptions: the try blocks of the source and where control goes from    *)
(* their except clauses.                                                   *)
(***************************************************************************)
\* faulty variant: the outer except clause (line 65) is missing
AltCatches(region) == region # "try2"

\* every except clause is "except Exception" and catches what its block
\* raises; the failures modelled are Exception subclasses (I/O, key, network,
\* ledger and NameError on an unbound local), not task cancellation
Catches(region) == TRUE

\* faulty variant: a cache that cannot be read ends the detector (line 149-151)
AltAfterExcept(region) ==
    CASE region = "try1"             -> "descriptions"
      [] region = "try_descriptions" -> "services"
      [] region = "try_services"     -> "load"
      [] region = "try_load"         -> "snapshot"
      [] region = "try_change"       -> "snapshot"
      [] region = "try2"             -> "done"

\* faulty variant: the keypair is made outside the try block of the clearing,
\* so it is made even when the clearing raised
AltKeypairAfterExcept(region) ==
    CASE region = "try1"             -> "keypair"
      [] region = "try_descriptions" -> "services"
      [] region = "try_services"     -> "load"
      [] region = "try_load"         -> "detect"
      [] region = "try_change"       -> "snapshot"
      [] region = "try2"             -> "done"

\* statement following the try/except of each region
AfterExcept(region) ==
    CASE region = "try1"             -> "descriptions"  \* lines 47-52, then 53
      [] region = "try_descriptions" -> "services"      \* lines 130-133, then 134
      [] region = "try_services"     -> "load"          \* lines 134-144, then 145
      [] region = "try_load"         -> "detect"        \* lines 146-151, then 152
      [] region = "try_change"       -> "snapshot"      \* lines 152-184, return to 198
      [] region = "try2"             -> "done"          \* lines 53-66, return

\* _get_dashboard_and_services runs inside the try block of lines 53-66
Enclosing(region) ==
    IF region \in {"try_descriptions", "try_services", "try_load", "try_change"}
    THEN "try2" ELSE "none"

\* pc after an exception raised in region
OnRaise(region) ==
    IF Catches(region) THEN AfterExcept(region)
    ELSE IF Enclosing(region) # "none" /\ Catches(Enclosing(region))
         THEN AfterExcept(Enclosing(region))
         ELSE "raised"

(***************************************************************************)
(* Locals of one invocation                                                *)
(***************************************************************************)
FreshLocals ==
    [pc                 |-> "idle",
     n                  |-> 0,       \* which tick started the cycle
     sender_kp          |-> FALSE,   \* bound?
     descriptions       |-> FALSE,   \* bound?
     services_list      |-> 0,       \* 0 is {}
     config_dashboard   |-> {},      \* {} when unbound
     current_config     |-> EmptyDoc,
     new_config         |-> {},      \* {} when unbound
     branch             |-> "none",  \* "changed", "cached", "skip"
     cfg_encrypted_data |-> {},      \* encrypted_data of _get_dashboard_and_services
     cfg_filename       |-> {},      \* filename of _get_dashboard_and_services
     data               |-> {},
     encrypted_data     |-> {},
     filename           |-> {},
     ipfs_hash          |-> {},
     \* observation of the cycle
     cleared            |-> FALSE,   \* _clear_files returned
     failed             |-> FALSE,   \* a statement raised (other than the read of the cache)
     late               |-> FALSE,   \* a phase ran after a statement had raised
     loaded             |-> "none",  \* "ok": the cached document was read, "failed": it was not
     had_hash           |-> FALSE,   \* IPFS_HASH_CONFIG was recorded when the cycle started
     enc_calls          |-> 0,       \* encrypt_message calls for the configuration
     topic_calls        |-> 0,       \* set_config_topic calls
     topic_ok           |-> {},      \* address set_config_topic succeeded with
     pointer            |-> {}]      \* argument send_datalog_states succeeded with:
                                     \* the record the cycle appended to the datalog

\* l after one more phase ran, with outcome ok
Ran(l, ok) == [l EXCEPT !.late = @ \/ l.failed, !.failed = @ \/ ~ok]

Put(i, l) == cycle' = [cycle EXCEPT ![i] = l]

\* no function is examined on its own
NoCall == [fn |-> "none"]

\* pcs between two statements neither of which awaits: the event loop cannot
\* switch to another coroutine there
NonYield == {"keypair", "detect", "write_config", "encrypt_config",
             "read_cached", "stage_config"}

Scheduled(i) == \A j \in Invocations \ {i} : cycle[j].pc \notin NonYield

InFlight == {i \in Invocations : cycle[i].pc # "idle"}

\* a fresh installation: no cycle has run, nothing is on disk
Installed ==
    /\ cycle = [i \in Invocations |-> FreshLocals]
    /\ data_dir = {}
    /\ config_file = [st |-> "absent"]
    /\ config_encrypted = {}
    /\ hass_data = {}
    /\ config_topic = {}
    /\ ticks = 0
    /\ prev = {}

Init ==
    /\ Installed
    /\ args = NoCall
    /\ result = {}

(***************************************************************************)
(* The timer.  get_and_send_data takes no lock and tests no "running"      *)
(* flag on entry (lines 41-47), so every tick delivered to it starts a new *)
(* invocation.                                                             *)
(***************************************************************************)
StartCycle(i) ==
    /\ cycle[i].pc = "idle"
    /\ Scheduled(i)
    /\ Put(i, [FreshLocals EXCEPT !.pc = "clear", !.n = ticks + 1,
                                  !.had_hash = (hass_data # {})])
    /\ ticks' = ticks + 1
    /\ UNCHANGED <<data_dir, config_file, config_encrypted, hass_data,
                   config_topic, prev, call>>

\* a tick that arrives when no cycle is in flight
TickIdle ==
    /\ InFlight = {}
    /\ ticks < MaxCycles
    /\ StartCycle(1)

\* a tick whenever the timer fires, a cycle in flight or not
Tick ==
    /\ ticks < MaxOverlapTicks
    /\ \E i \in Invocations :
          /\ \A j \in Invocations : j < i => cycle[j].pc # "idle"
          /\ StartCycle(i)

(***************************************************************************)
(* get_and_send_data, lines 47-52                                          *)
(***************************************************************************)
\* faulty variant: nothing is removed
AltClearedDir(dir) == dir

\* the files _clear_files leaves when it runs to its end (lines 235-238)
ClearedDir(dir) == {f \in dir : ~IsTelemetry(f)}

\* the directories _clear_files can leave when os.listdir or an os.remove
\* raises: the files not yet removed stay
PartlyClearedDirs(dir) ==
    LET marked == {f \in dir : IsTelemetry(f)} IN
    {ClearedDir(dir) \cup kept : kept \in {k \in SUBSET marked : k = {} => marked = {}}}

\* _clear_files() (line 48)
clear_files(i) ==
    LET l == cycle[i] IN
    /\ l.pc = "clear"
    /\ Scheduled(i)
    /\ \/ /\ data_dir' = ClearedDir(data_dir)
          /\ Put(i, [Ran(l, TRUE) EXCEPT !.pc = "keypair", !.cleared = TRUE])
       \/ \* os.listdir or an os.remove raises
          /\ data_dir' \in PartlyClearedDirs(data_dir)
          /\ Put(i, [Ran(l, FALSE) EXCEPT !.pc = OnRaise("try1")])
    /\ UNCHANGED <<config_file, config_encrypted, hass_data, config_topic, ticks, prev, call>>

\* sender_acc = Account(seed=...); sender_kp = sender_acc.keypair (lines 49-50)
keypair(i) ==
    LET l == cycle[i] IN
    /\ l.pc = "keypair"
    /\ Scheduled(i)
    /\ \/ Put(i, [Ran(l, TRUE) EXCEPT !.pc = "descriptions", !.sender_kp = TRUE])
       \/ Put(i, [Ran(l, FALSE) EXCEPT !.pc = OnRaise("try1")])
    /\ UNCHANGED globals

(***************************************************************************)
(* _get_dashboard_and_services, called first by _get_states (line 197)     *)
(***************************************************************************)
\* descriptions = ... await async_get_all_descriptions(hass) (lines 130-133)
get_descriptions(i) ==
    LET l == cycle[i] IN
    /\ l.pc = "descriptions"
    /\ Scheduled(i)
    /\ \/ Put(i, [Ran(l, TRUE) EXCEPT !.pc = "services", !.descriptions = TRUE])
       \/ Put(i, [Ran(l, FALSE) EXCEPT !.pc = OnRaise("try_descriptions")])
    /\ UNCHANGED globals

\* services_list and config_dashboard (lines 134-144).  has_entities: the
\* entity registry is not empty; services: the descriptions of the platforms
\* of its entities; dashboard: what dashboard.async_load returns.
get_services(i) ==
    LET l == cycle[i] IN
    /\ l.pc = "services"
    /\ Scheduled(i)
    /\ \E has_entities \in BOOLEAN, services \in 0..NumServices,
          dashboard \in Dashboards, load_ok \in BOOLEAN :
          LET list == IF has_entities THEN services ELSE 0 IN
          IF has_entities /\ ~l.descriptions
          THEN \* "platform in descriptions" raises NameError (line 139)
               Put(i, [Ran(l, FALSE) EXCEPT !.pc = OnRaise("try_services")])
          ELSE IF load_ok
          THEN Put(i, [Ran(l, TRUE) EXCEPT !.pc = "load", !.services_list = list,
                                !.config_dashboard = {dashboard}])
          ELSE Put(i, [Ran(l, FALSE) EXCEPT !.pc = OnRaise("try_services"),
                                !.services_list = list])
    /\ UNCHANGED globals

\* faulty variant: the cached document is never used
AltLoadedConfig(file, read_ok) == EmptyDoc

\* current_config = json.load(f), or {} on any exception (lines 146-151)
LoadedConfig(file, read_ok) ==
    IF file.st = "ok" /\ read_ok THEN file.doc ELSE EmptyDoc

load_config(i) ==
    LET l == cycle[i] IN
    /\ l.pc = "load"
    /\ Scheduled(i)
    /\ \E read_ok \in BOOLEAN :
          Put(i, [l EXCEPT !.pc = AfterExcept("try_load"),
                           !.late = @ \/ l.failed,
                           !.current_config = LoadedConfig(config_file, read_ok),
                           !.loaded = IF config_file.st = "ok" /\ read_ok
                                      THEN "ok" ELSE "failed"])
    /\ UNCHANGED globals

\* faulty variant: the test of line 158 is dropped, an unchanged configuration
\* is republished from the cache on every cycle
AltBranch(current_config, new_config, hash) ==
    IF current_config # new_config THEN "changed" ELSE "cached"

\* the branch taken at lines 158-159 and 169
Branch(current_config, new_config, hash) ==
    IF current_config # new_config \/ hash = {}
    THEN IF current_config # new_config THEN "changed" ELSE "cached"
    ELSE "skip"

\* new_config = {...}; if current_config != new_config or ... (lines 153-160, 169)
detect(i) ==
    LET l == cycle[i] IN
    /\ l.pc = "detect"
    /\ Scheduled(i)
    /\ IF l.config_dashboard = {}
       THEN \* config_dashboard is unbound: NameError (line 155)
            Put(i, [Ran(l, FALSE) EXCEPT !.pc = OnRaise("try_change")])
       ELSE LET dashboard == CHOOSE d \in l.config_dashboard : TRUE
                new_config == NewConfig(l.services_list, dashboard, TwinId)
                branch == Branch(l.current_config, new_config, hass_data)
            IN  Put(i, [Ran(l, TRUE) EXCEPT !.pc = CASE branch = "changed" -> "write_config"
                                          [] branch = "cached"  -> "read_cached"
                                          [] branch = "skip"    -> "snapshot",
                                 !.new_config = {new_config},
                                 !.branch = branch])
    /\ UNCHANGED globals

\* faulty variant: the candidate is not persisted
AltWrittenConfig(new_config) == [st |-> "absent"]

\* with open(config, "w") as f: json.dump(new_config, f) (lines 161-162)
WrittenConfig(new_config) == [st |-> "ok", doc |-> new_config]

write_config(i) ==
    LET l == cycle[i]
        new_config == CHOOSE d \in l.new_config : TRUE
    IN
    /\ l.pc = "write_config"
    /\ Scheduled(i)
    /\ \/ /\ config_file' = WrittenConfig(new_config)
          /\ Put(i, [Ran(l, TRUE) EXCEPT !.pc = "encrypt_config"])
       \/ \* open raises (file untouched) or json.dump raises after open truncated it
          /\ config_file' \in {config_file, [st |-> "corrupt"]}
          /\ Put(i, [Ran(l, FALSE) EXCEPT !.pc = OnRaise("try_change")])
    /\ UNCHANGED <<data_dir, config_encrypted, hass_data, config_topic, ticks, prev, call>>

\* Account(...), sender_kp, encrypt_message(str(new_config), ...) (lines 163-168)
encrypt_config(i) ==
    LET l == cycle[i]
        new_config == CHOOSE d \in l.new_config : TRUE
    IN
    /\ l.pc = "encrypt_config"
    /\ Scheduled(i)
    /\ \/ Put(i, [Ran(l, TRUE) EXCEPT !.pc = "stage_config",
                           !.cfg_encrypted_data = {encrypt_message(new_config, l.n)},
                           !.enc_calls = @ + 1])
       \/ \* Account raises (no call of encrypt_message) or encrypt_message raises
          \E called \in {0, 1} :
             Put(i, [Ran(l, FALSE) EXCEPT !.pc = OnRaise("try_change"),
                              !.enc_calls = @ + called])
    /\ UNCHANGED globals

\* list the directory and read the file named config_encrypted* that comes
\* last in os.listdir's (arbitrary) order (lines 170-175)
read_cached(i) ==
    LET l == cycle[i]
        found == {f \in config_encrypted : IsEncryptedConfig(f)}
    IN
    /\ l.pc = "read_cached"
    /\ Scheduled(i)
    /\ \/ \E f \in found :
             Put(i, [Ran(l, TRUE) EXCEPT !.pc = "stage_config",
                              !.cfg_encrypted_data = {f.content}])
       \/ \* os.listdir, open or read raises; with no such file
          \* encrypted_config_filename is unbound: NameError (line 174)
          Put(i, [Ran(l, FALSE) EXCEPT !.pc = OnRaise("try_change")])
    /\ UNCHANGED globals

\* filename = write_data_to_file(encrypted_data, data_config_path, config=True) (line 176)
stage_config(i) ==
    LET l == cycle[i]
        blob == CHOOSE b \in l.cfg_encrypted_data : TRUE
        file == write_data_to_file(blob, l.n, TRUE)
    IN
    /\ l.pc = "stage_config"
    /\ Scheduled(i)
    /\ \/ /\ config_encrypted' = config_encrypted \cup {file}
          /\ Put(i, [Ran(l, TRUE) EXCEPT !.pc = "upload_config", !.cfg_filename = {file.name}])
       \/ /\ UNCHANGED config_encrypted
          /\ Put(i, [Ran(l, FALSE) EXCEPT !.pc = OnRaise("try_change")])
    /\ UNCHANGED <<data_dir, config_file, hass_data, config_topic, ticks, prev, call>>

\* faulty variant: the address is not recorded in hass.data
AltIpfsHashConfig(address) == {}

\* the value stored under IPFS_HASH_CONFIG (line 178)
IpfsHashConfig(address) == {address}

\* hass.data[DOMAIN][IPFS_HASH_CONFIG] = await add_config_to_ipfs(hass, filename) (line 178)
upload_config(i) ==
    LET l == cycle[i]
        staged == {f \in config_encrypted : f.name \in l.cfg_filename}
    IN
    /\ l.pc = "upload_config"
    /\ Scheduled(i)
    /\ \/ \E f \in staged :
             /\ hass_data' = IpfsHashConfig(ContentAddress(f.content))
             /\ Put(i, [Ran(l, TRUE) EXCEPT !.pc = "set_config_topic"])
       \/ /\ UNCHANGED hass_data
          /\ Put(i, [Ran(l, FALSE) EXCEPT !.pc = OnRaise("try_change")])
    /\ UNCHANGED <<data_dir, config_file, config_encrypted, config_topic, ticks, prev, call>>

\* await set_config_topic(hass.data[DOMAIN][IPFS_HASH_CONFIG], twin id) (lines 180-182)
set_config_topic(i) ==
    LET l == cycle[i] IN
    /\ l.pc = "set_config_topic"
    /\ Scheduled(i)
    /\ \/ /\ config_topic' = hass_data
          /\ Put(i, [Ran(l, TRUE) EXCEPT !.pc = "snapshot", !.topic_calls = @ + 1,
                              !.topic_ok = hass_data])
       \/ /\ UNCHANGED config_topic
          /\ Put(i, [Ran(l, FALSE) EXCEPT !.pc = OnRaise("try_change"), !.topic_calls = @ + 1])
    /\ UNCHANGED <<data_dir, config_file, config_encrypted, hass_data, ticks, prev, call>>

(***************************************************************************)
(* _get_states after line 197, and get_and_send_data lines 55-66           *)
(***************************************************************************)
\* the devices and entities loop, the twin id, json.dumps (lines 198-228, 56)
get_states(i) ==
    LET l == cycle[i] IN
    /\ l.pc = "snapshot"
    /\ Scheduled(i)
    /\ \/ \E s \in Snapshots :
             Put(i, [Ran(l, TRUE) EXCEPT !.pc = "encrypt",
                              !.data = {[devices |-> s, twin_id |-> TwinId]}])
       \/ Put(i, [Ran(l, FALSE) EXCEPT !.pc = OnRaise("try2")])
    /\ UNCHANGED globals

\* encrypted_data = encrypt_message(str(data), sender_kp, sender_kp.public_key) (line 60)
encrypt(i) ==
    LET l == cycle[i]
        data == CHOOSE d \in l.data : TRUE
    IN
    /\ l.pc = "encrypt"
    /\ Scheduled(i)
    /\ \/ /\ l.sender_kp    \* unbound sender_kp: NameError
          /\ Put(i, [Ran(l, TRUE) EXCEPT !.pc = "sleep",
                              !.encrypted_data = {encrypt_message(data, l.n)}])
       \/ Put(i, [Ran(l, FALSE) EXCEPT !.pc = OnRaise("try2")])
    /\ UNCHANGED globals

\* await asyncio.sleep(2) (line 61)
sleep(i) ==
    LET l == cycle[i] IN
    /\ l.pc = "sleep"
    /\ Scheduled(i)
    /\ Put(i, [l EXCEPT !.pc = "stage"])
    /\ UNCHANGED globals

\* filename = write_data_to_file(encrypted_data, data_path) (line 62)
stage(i) ==
    LET l == cycle[i]
        blob == CHOOSE b \in l.encrypted_data : TRUE
        file == write_data_to_file(blob, l.n, FALSE)
    IN
    /\ l.pc = "stage"
    /\ Scheduled(i)
    /\ \/ /\ data_dir' = data_dir \cup {file}
          /\ Put(i, [Ran(l, TRUE) EXCEPT !.pc = "upload", !.filename = {file.name}])
       \/ /\ UNCHANGED data_dir
          /\ Put(i, [Ran(l, FALSE) EXCEPT !.pc = OnRaise("try2")])
    /\ UNCHANGED <<config_file, config_encrypted, hass_data, config_topic, ticks, prev, call>>

\* faulty variant: a failed upload is swallowed and line 64 still runs
AltAfterUpload(ok) == "datalog"

\* faulty variant: a failed upload is tried again within the cycle
AltRetryUpload(ok) == IF ok THEN "datalog" ELSE "upload"

\* where control goes from line 63: on to line 64, or to the except clause
AfterUpload(ok) == IF ok THEN "datalog" ELSE OnRaise("try2")

\* ipfs_hash = await add_telemetry_to_ipfs(hass, filename) (line 63)
upload(i) ==
    LET l == cycle[i]
        staged == {f \in data_dir : f.name \in l.filename}
    IN
    /\ l.pc = "upload"
    /\ Scheduled(i)
    /\ \/ \E f \in staged :
             /\ Put(i, [Ran(l, TRUE) EXCEPT !.pc = AfterUpload(TRUE),
                                 !.ipfs_hash = {ContentAddress(f.content)}])
       \/ \* the store is unreachable, or the staged file is no longer there
          /\ Put(i, [Ran(l, FALSE) EXCEPT !.pc = AfterUpload(FALSE)])
    /\ UNCHANGED <<data_dir, config_file, config_encrypted, hass_data,
                   config_topic, ticks, prev, call>>

\* the address send_datalog_states is called with (line 64)
DatalogArgument(l) == l.ipfs_hash

\* await hass.data[DOMAIN][ROBONOMICS].send_datalog_states(ipfs_hash) (line 64)
send_datalog_states(i) ==
    LET l == cycle[i] IN
    /\ l.pc = "datalog"
    /\ Scheduled(i)
    /\ \/ /\ Put(i, [Ran(l, TRUE) EXCEPT !.pc = "done",
                                       !.pointer = {[address |-> DatalogArgument(l)]}])
       \/ /\ Put(i, [Ran(l, FALSE) EXCEPT !.pc = OnRaise("try2")])
    /\ UNCHANGED globals

\* no exception at all was raised in the cycle
Clean(l) == ~l.failed /\ l.loaded # "failed"

\* the candidate document of the cycle, once line 153-157 built it
Candidate(l) == CHOOSE d \in l.new_config : TRUE

\* what is remembered of a finished cycle
Summary(l) ==
    [new_config  |-> l.new_config,
     branch      |-> l.branch,
     failed      |-> l.failed,
     had_hash    |-> l.had_hash,
     enc_calls   |-> l.enc_calls,
     topic_calls |-> l.topic_calls,
     topic_ok    |-> l.topic_ok,
     blob        |-> l.cfg_encrypted_data]

\* get_and_send_data returns to the scheduler (after line 64 or line 66)
return(i) ==
    LET l == cycle[i] IN
    /\ l.pc = "done"
    /\ Scheduled(i)
    /\ Put(i, FreshLocals)
    /\ prev' = {Summary(l)}
    /\ UNCHANGED <<data_dir, config_file, config_encrypted, hass_data,
                   config_topic, ticks, call>>

\* the host process restarts: hass.data is rebuilt, the disk and the remote
\* services keep their state
Restart ==
    /\ InFlight = {}
    /\ hass_data' = {}
    /\ prev' = {}
    /\ UNCHANGED <<cycle, data_dir, config_file, config_encrypted,
                   config_topic, ticks, call>>

Step ==
    \E i \in Invocations :
       \/ clear_files(i)
       \/ keypair(i)
       \/ get_descriptions(i)
       \/ get_services(i)
       \/ load_config(i)
       \/ detect(i)
       \/ write_config(i)
       \/ encrypt_config(i)
       \/ read_cached(i)
       \/ stage_config(i)
       \/ upload_config(i)
       \/ set_config_topic(i)
       \/ get_states(i)
       \/ encrypt(i)
       \/ sleep(i)
       \/ stage(i)
       \/ upload(i)
       \/ send_datalog_states(i)
       \/ return(i)

\* cycles that do not overlap: the timer interval is longer than a cycle
Next == TickIdle \/ Step \/ Restart

Spec == Init /\ [][Next]_vars

\* ticks as the timer delivers them
NextOverlap == Tick \/ Step \/ Restart

SpecOverlap == Init /\ [][NextOverlap]_vars

(***************************************************************************)
(* _clear_files on its own (lines 231-238), applied to a directory that    *)
(* holds telemetry files, configuration files and unrelated files          *)
(***************************************************************************)
File(name) == [name |-> name, content |-> "bytes"]

\* data_1, data_2, data, config_encrypted_x, dat, mydata
SampleDir ==
    {File(DataMarker \o <<"_", "1">>),
     File(DataMarker \o <<"_", "2">>),
     File(DataMarker),
     File(ConfigMarker \o <<"_", "x">>),
     File(<<"d", "a", "t">>),
     File(<<"m", "y">> \o DataMarker)}

InitClear ==
    /\ Installed
    /\ args \in {[fn |-> "_clear_files", files |-> dir] : dir \in SUBSET SampleDir}
    /\ result = {}

\* _clear_files() returns, or raises part-way
call_clear_files ==
    /\ args.fn = "_clear_files"
    /\ result = {}
    /\ \/ result' = {[raised |-> FALSE, files |-> ClearedDir(args.files)]}
       \/ \E dir \in PartlyClearedDirs(args.files) :
             result' = {[raised |-> TRUE, files |-> dir]}
    /\ UNCHANGED <<cycle, data_dir, config_file, config_encrypted, hass_data,
                   config_topic, ticks, prev, args>>

NextClear == call_clear_files

SpecClear == InitClear /\ [][NextClear]_vars

(***************************************************************************)
(* The devices and entities loop of _get_states on its own (lines          *)
(* 198-228), applied to an entity registry, the recorder's histories and   *)
(* the device registry                                                     *)
(***************************************************************************)
\* device ids as the device registry generates them (hexadecimal)
DeviceIds == {"0a1f", "9c3e"}

\* registry.async_get(device_id) (line 219)
DeviceRegistry ==
    [d \in DeviceIds |->
        IF d = "0a1f" THEN [name_by_user |-> {"Kitchen"}, name |-> "Plug"]
                      ELSE [name_by_user |-> {},          name |-> "Lamp"]]

\* str(x) of a number
str(x) == ToString(x)

\* what _state_changes_during_period returns for an entity whose state was
\* recorded n times in the window, the first record being the state at the
\* start of the window (lines 85-92)
RawHistory(n) ==
    [k \in 1..n |-> [state        |-> IF k % 2 = 1 THEN "on" ELSE "off",
                     last_changed |-> k - 1]]

\* the entity registry entry number k, with what hass.states and the recorder
\* hold for it; device_id and state are {} when None
EntityChoices(k) ==
    {[entity_id |-> <<"sensor", k>>,
      device_id |-> device_id,
      state     |-> state,
      raw       |-> RawHistory(n)] :
        device_id \in {{}} \cup {{d} : d \in DeviceIds},
        state \in {{}, {[state |-> "on",
                         unit_of_measurement |-> IF k % 2 = 1 THEN {"W"} ELSE {}]}},
        n \in 0..MaxHistory}

\* faulty variant: the record at the start of the window is kept
Alt_get_state_history(states) ==
    [k \in 1..Len(states) |->
        [state |-> states[k].state, date |-> str(states[k].last_changed)]]

\* _get_state_history: states = states[1:], then one {"state", "date"}
\* record for each state in order (lines 114-118)
get_state_history(states) ==
    LET rest == SubSeq(states, 2, Len(states)) IN
    [k \in 1..Len(rest) |->
        [state |-> rest[k].state, date |-> str(rest[k].last_changed)]]

\* entity_info (lines 208-217); str(None) is "None"
entity_info(entity_state, history) ==
    [units   |-> IF entity_state.unit_of_measurement = {} THEN "None"
                 ELSE CHOOSE u \in entity_state.unit_of_measurement : TRUE,
     state   |-> entity_state.state,
     history |-> history]

\* device_name (line 220)
device_name(device) ==
    IF device.name_by_user # {} THEN CHOOSE n \in device.name_by_user : TRUE
    ELSE device.name

\* faulty variant: the entity replaces the entities already recorded
AltWithEntity(entities, entity_id, info) == entity_id :> info

\* devices_data[device_id]["entities"][entity_id] = entity_info (line 226)
WithEntity(entities, entity_id, info) == (entity_id :> info) @@ entities

\* devices_data after the loop of lines 203-226 has visited the first k entities
RECURSIVE devices_data(_, _)
devices_data(entities, k) ==
    IF k = 0 THEN EmptyDoc
    ELSE LET before == devices_data(entities, k - 1)
             entity_data == entities[k]
         IN  IF entity_data.device_id = {} THEN before
             ELSE IF entity_data.state = {} THEN before
             ELSE LET device_id == CHOOSE d \in entity_data.device_id : TRUE
                      entity_state == CHOOSE st \in entity_data.state : TRUE
                      info == entity_info(entity_state, get_state_history(entity_data.raw))
                  IN  IF device_id \notin DOMAIN before
                      THEN (device_id :> [name     |-> device_name(DeviceRegistry[device_id]),
                                          entities |-> (entity_data.entity_id :> info)])
                           @@ before
                      ELSE [before EXCEPT ![device_id].entities =
                                              WithEntity(@, entity_data.entity_id, info)]

\* faulty variant: the twin id is not recorded
AltWithTwinId(data, twin_id) == data

\* devices_data["twin_id"] = hass.data[DOMAIN][TWIN_ID] (line 227)
WithTwinId(data, twin_id) == ("twin_id" :> twin_id) @@ data

\* args.entities is entity_registry.entities, in the order the loop of line
\* 203 visits them; the hub starts with no entity
InitCollect ==
    /\ Installed
    /\ args = [fn |-> "_get_states", entities |-> <<>>]
    /\ result = {}

\* an integration registers one more entity before _get_states is called
register_entity ==
    /\ args.fn = "_get_states"
    /\ result = {}
    /\ Len(args.entities) < NumEntities
    /\ \E e \in EntityChoices(Len(args.entities) + 1) :
          args' = [args EXCEPT !.entities = Append(@, e)]
    /\ UNCHANGED <<cycle, data_dir, config_file, config_encrypted, hass_data,
                   config_topic, ticks, prev, result>>

\* _get_states from line 198 on returns devices_data
call_get_states ==
    /\ args.fn = "_get_states"
    /\ result = {}
    /\ result' = {WithTwinId(devices_data(args.entities, Len(args.entities)), TwinId)}
    /\ UNCHANGED <<cycle, data_dir, config_file, config_encrypted, hass_data,
                   config_topic, ticks, prev, args>>

NextCollect == register_entity \/ call_get_states

SpecCollect == InitCollect /\ [][NextCollect]_vars

(***************************************************************************)
(* The credentials step of the setup flow on its own (config_flow.py,      *)
(* _validate_input lines 111-127 and ConfigFlow.async_step_conf lines      *)
(* 164-191).  args holds the submitted form and what each check finds for  *)
(* it: "yes", "no", or "raises" when the check itself fails (executor,     *)
(* library or network error).                                              *)
(***************************************************************************)
Findings == {"yes", "no", "raises"}

\* the form as submitted, with what the checks will find
Submissions ==
    {[fn         |-> "async_step_conf",
      user_input |-> {"credentials"},
      seed       |-> seed,
      address    |-> address,
      ledger     |-> ledger,
      in_sub     |-> in_sub] :
        seed \in Findings, address \in Findings, ledger \in Findings, in_sub \in Findings}

\* the step opened with no form submitted yet (user_input is None)
FirstDisplay ==
    [fn |-> "async_step_conf", user_input |-> {},
     seed |-> "yes", address |-> "yes", ledger |-> "yes", in_sub |-> "yes"]

\* faulty variant: the owner address is checked before the admin seed
Alt_validate_input(data) ==
    IF data.address = "raises"
    THEN [raised |-> {"Exception"}, calls |-> <<"address">>]
    ELSE IF data.address = "no"
    THEN [raised |-> {"InvalidSubOwnerAddress"}, calls |-> <<"address">>]
    ELSE IF data.seed = "raises"
    THEN [raised |-> {"Exception"}, calls |-> <<"address", "seed">>]
    ELSE IF data.seed = "no"
    THEN [raised |-> {"InvalidSubAdminSeed"}, calls |-> <<"address", "seed">>]
    ELSE IF data.ledger = "raises"
    THEN [raised |-> {"Exception"}, calls |-> <<"address", "seed", "ledger">>]
    ELSE IF data.ledger = "no"
    THEN [raised |-> {"NoSubscription"}, calls |-> <<"address", "seed", "ledger">>]
    ELSE IF data.in_sub = "raises"
    THEN [raised |-> {"Exception"}, calls |-> <<"address", "seed", "ledger", "in_sub">>]
    ELSE IF data.in_sub = "no"
    THEN [raised |-> {"ControllerNotInDevices"},
          calls |-> <<"address", "seed", "ledger", "in_sub">>]
    ELSE [raised |-> {}, calls |-> <<"address", "seed", "ledger", "in_sub">>]

\* _validate_input (lines 118-127): the exception it raises, {} when it
\* returns, and the checks it called, in order.  _is_valid_sub_admin_seed
\* returns the exception Account raised (truthy) or None (lines 94-97).
validate_input(data) ==
    IF data.seed = "raises"
    THEN [raised |-> {"Exception"}, calls |-> <<"seed">>]
    ELSE IF data.seed = "no"
    THEN [raised |-> {"InvalidSubAdminSeed"}, calls |-> <<"seed">>]
    ELSE IF data.address = "raises"
    THEN [raised |-> {"Exception"}, calls |-> <<"seed", "address">>]
    ELSE IF data.address = "no"
    THEN [raised |-> {"InvalidSubOwnerAddress"}, calls |-> <<"seed", "address">>]
    ELSE IF data.ledger = "raises"
    THEN [raised |-> {"Exception"}, calls |-> <<"seed", "address", "ledger">>]
    ELSE IF data.ledger = "no"
    THEN [raised |-> {"NoSubscription"}, calls |-> <<"seed", "address", "ledger">>]
    ELSE IF data.in_sub = "raises"
    THEN [raised |-> {"Exception"}, calls |-> <<"seed", "address", "ledger", "in_sub">>]
    ELSE IF data.in_sub = "no"
    THEN [raised |-> {"ControllerNotInDevices"},
          calls |-> <<"seed", "address", "ledger", "in_sub">>]
    ELSE [raised |-> {}, calls |-> <<"seed", "address", "ledger", "in_sub">>]

\* errors["base"] set by the except clause that catches exception (lines 177-187)
except_clause(exception) ==
    CASE exception = "InvalidSubAdminSeed"    -> "invalid_sub_admin_seed"
      [] exception = "InvalidSubOwnerAddress" -> "invalid_sub_owner_address"
      [] exception = "NoSubscription"         -> "has_no_subscription"
      [] exception = "ControllerNotInDevices" -> "is_not_in_devices"
      [] OTHER                                -> "unknown"

\* what async_step_conf returns (lines 171-191): the form, with the errors
\* if any, or the created entry
async_step_conf(data) ==
    IF data.user_input = {}
    THEN [type |-> "form", step_id |-> "conf", errors |-> {}, entry |-> {}, calls |-> <<>>]
    ELSE LET info == validate_input(data) IN
         IF info.raised = {}
         THEN [type |-> "create_entry", step_id |-> "conf", errors |-> {},
               entry |-> {[title |-> "Robonomics", data |-> data.user_input]},
               calls |-> info.calls]
         ELSE [type |-> "form", step_id |-> "conf",
               errors |-> {except_clause(e) : e \in info.raised},
               entry |-> {}, calls |-> info.calls]

InitFlow ==
    /\ Installed
    /\ args \in Submissions \cup {FirstDisplay}
    /\ result = {}

\* ConfigFlow.async_step_conf(user_input) returns
call_async_step_conf ==
    /\ args.fn = "async_step_conf"
    /\ result = {}
    /\ result' = {async_step_conf(args)}
    /\ UNCHANGED <<cycle, data_dir, config_file, config_encrypted, hass_data,
                   config_topic, ticks, prev, args>>

NextFlow == call_async_step_conf

SpecFlow == InitFlow /\ [][NextFlow]_vars

(***************************************************************************)
(* Properties                                                              *)
(***************************************************************************)
\* the cycle of invocation i has run to its end and is about to return
AtEnd(i) == cycle[i].pc = "done"

\* the configuration was encrypted, staged, uploaded or its topic written
ConfigPublicationActed(l) ==
    \/ l.enc_calls > 0
    \/ l.cfg_encrypted_data # {}
    \/ l.cfg_filename # {}
    \/ l.topic_calls > 0

\* C1: at most one invocation of get_and_send_data is in flight at any time.
C1_AtMostOneInFlight == Cardinality(InFlight) <= 1

\* C2: once a phase of a cycle has failed, no later phase of that cycle runs.
C2_FailureEndsCycle == \A i \in Invocations : ~cycle[i].late

\* C3: whatever steps fail, no exception leaves get_and_send_data: a cycle in
\* flight is never left with an exception propagating to the scheduler, it
\* can always take its next step, and at its end it returns.
C3_NoErrorReachesScheduler ==
    \A i \in Invocations :
       /\ cycle[i].pc # "raised"
       /\ cycle[i].pc \notin {"idle", "done"} =>
             ENABLED (\/ clear_files(i) \/ keypair(i) \/ get_descriptions(i)
                      \/ get_services(i) \/ load_config(i) \/ detect(i)
                      \/ write_config(i) \/ encrypt_config(i) \/ read_cached(i)
                      \/ stage_config(i) \/ upload_config(i) \/ set_config_topic(i)
                      \/ get_states(i) \/ encrypt(i) \/ sleep(i) \/ stage(i)
                      \/ upload(i) \/ send_datalog_states(i))
       /\ AtEnd(i) => ENABLED return(i)

\* a cycle in which the keypair, the configuration source and the snapshot
\* collection all failed has reached its end
C3_Witness ==
    \E i \in Invocations :
       /\ AtEnd(i)
       /\ cycle[i].failed /\ cycle[i].late
       /\ ~cycle[i].sender_kp
       /\ cycle[i].config_dashboard = {}
       /\ cycle[i].data = {}

\* C4 as claimed: at the end of every cycle the snapshot was uploaded and its
\* pointer written, or neither took effect.
C4_UploadAndPointerOrNeither ==
    \A i \in Invocations :
       AtEnd(i) => ((cycle[i].ipfs_hash # {}) <=> (cycle[i].pointer # {}))

\* C4 amended: the pointer is written only after the upload of the staged
\* snapshot succeeded, and with the address that upload returned; an upload
\* without a pointer remains possible.
C4_PointerOnlyAfterUpload ==
    \A i \in Invocations :
       cycle[i].pointer # {} =>
          /\ cycle[i].ipfs_hash # {}
          /\ cycle[i].pointer = {[address |-> cycle[i].ipfs_hash]}
          /\ cycle[i].ipfs_hash = {ContentAddress(b) : b \in cycle[i].encrypted_data}

\* a cycle ended with the snapshot uploaded and its pointer written
C4_Witness ==
    \E i \in Invocations :
       AtEnd(i) /\ cycle[i].pointer # {} /\ cycle[i].ipfs_hash # {}

\* C5: after a cycle that found the configuration changed but did not get its
\* topic written, a following cycle that sees the same configuration and in
\* which nothing fails sets the config topic to the address of an encryption
\* of that configuration.
C5_NextTickRetriesConfig ==
    \A i \in Invocations : \A p \in prev :
       ( /\ AtEnd(i)
         /\ p.branch = "changed" /\ p.topic_ok = {}
         /\ cycle[i].new_config = p.new_config
         /\ Clean(cycle[i]) )
       => \E a \in config_topic : a.cid.pt = Candidate(cycle[i])

\* two consecutive cycles of one process with the same configuration, no
\* address recorded before the first, no step failing in either
TwoCyclesSameConfig(p, l) ==
    /\ l.pc = "done"
    /\ p.new_config # {} /\ l.new_config = p.new_config
    /\ ~p.failed /\ ~l.failed

\* C6 as claimed: set_config_topic is called once in each of the two cycles
\* and the configuration is encrypted once.
C6_PointerReassertedEveryCycle ==
    \A i \in Invocations : \A p \in prev :
       (TwoCyclesSameConfig(p, cycle[i]) /\ ~p.had_hash)
       => /\ p.topic_calls = 1 /\ cycle[i].topic_calls = 1
          /\ p.enc_calls + cycle[i].enc_calls = 1

\* C6 amended: set_config_topic is called once in the first cycle and not at
\* all in the second, which reads the cached document back and finds it
\* unchanged; the configuration is encrypted at most once, in the first cycle,
\* and exactly once when the first cycle found the document changed.
C6_PointerSetOnceThenSkipped ==
    \A i \in Invocations : \A p \in prev :
       (TwoCyclesSameConfig(p, cycle[i]) /\ ~p.had_hash /\ cycle[i].loaded = "ok")
       => /\ p.topic_calls = 1 /\ cycle[i].topic_calls = 0
          /\ cycle[i].enc_calls = 0
          /\ p.enc_calls = (IF p.branch = "changed" THEN 1 ELSE 0)
          /\ cycle[i].branch = "skip"

\* the second of two such cycles has ended, the first having encrypted
C6_Witness ==
    \E i \in Invocations : \E p \in prev :
       /\ TwoCyclesSameConfig(p, cycle[i]) /\ ~p.had_hash /\ cycle[i].loaded = "ok"
       /\ p.enc_calls = 1 /\ p.topic_calls = 1

\* C7 as claimed: both runs yield a blob, the two blobs are identical, and
\* encrypt_message was invoked once across the two runs.
C7_SameBlobOnBothRuns ==
    \A i \in Invocations : \A p \in prev :
       TwoCyclesSameConfig(p, cycle[i])
       => /\ p.blob # {} /\ cycle[i].cfg_encrypted_data = p.blob
          /\ p.enc_calls + cycle[i].enc_calls = 1

\* C7 amended: the second run, reading the cached document back, yields no
\* blob (it encrypts, reads and stages nothing), so the blob of the first run
\* is still the cached one, and encrypt_message is invoked at most once
\* across the two runs.
C7_SecondRunYieldsNothing ==
    \A i \in Invocations : \A p \in prev :
       (TwoCyclesSameConfig(p, cycle[i]) /\ cycle[i].loaded = "ok")
       => /\ cycle[i].cfg_encrypted_data = {}
          /\ cycle[i].cfg_filename = {}
          /\ cycle[i].enc_calls = 0
          /\ p.enc_calls <= 1
          /\ \A b \in p.blob : \E f \in config_encrypted : f.content = b
          /\ config_file = WrittenConfig(Candidate(cycle[i]))

\* the second run has ended after a first run that republished a cached blob
C7_Witness ==
    \E i \in Invocations : \E p \in prev :
       /\ TwoCyclesSameConfig(p, cycle[i]) /\ cycle[i].loaded = "ok"
       /\ p.blob # {} /\ cycle[i].cfg_encrypted_data = {}

\* C8: a candidate that differs from the cached document is classified as
\* changed; the cycle then encrypts at most once, and when neither the write
\* nor the encryption fails it encrypts the candidate exactly once and the
\* cached plaintext document is the candidate.
C8_ChangedIsReencryptedOnce ==
    \A i \in Invocations :
       LET l == cycle[i] IN
       (l.new_config # {} /\ l.current_config # Candidate(l))
       => /\ l.branch = "changed"
          /\ l.enc_calls <= 1
          /\ l.pc \notin {"write_config", "encrypt_config"} /\ ~l.failed
                => /\ l.enc_calls = 1
                   /\ l.cfg_encrypted_data = {encrypt_message(Candidate(l), l.n)}
                   /\ config_file = [st |-> "ok", doc |-> Candidate(l)]

\* a cycle replaced a cached document by a different candidate
C8_Witness ==
    \E i \in Invocations :
       LET l == cycle[i] IN
       /\ AtEnd(i) /\ ~l.failed /\ l.new_config # {}
       /\ l.loaded = "ok" /\ l.current_config # Candidate(l)
       /\ l.current_config.dashboard = Candidate(l).dashboard
       /\ l.enc_calls = 1
       /\ config_file = [st |-> "ok", doc |-> Candidate(l)]

\* C9: the configuration is encrypted, staged, uploaded or its topic written
\* only in a cycle whose candidate differs from the last-known document or
\* that started with no address recorded; with an unchanged document and an
\* address recorded none of these happens.
C9_PublishOnlyIfChangedOrNoAddress ==
    \A i \in Invocations :
       LET l == cycle[i] IN
       /\ ConfigPublicationActed(l) =>
             /\ l.new_config # {}
             /\ l.current_config # Candidate(l) \/ ~l.had_hash
       /\ (l.new_config # {} /\ l.current_config = Candidate(l) /\ l.had_hash) =>
             /\ l.branch = "skip"
             /\ ~ConfigPublicationActed(l)
             /\ hass_data # {}

\* a cycle with an unchanged document and an address recorded has ended
C9_Witness ==
    \E i \in Invocations :
       LET l == cycle[i] IN
       /\ AtEnd(i) /\ Clean(l)
       /\ l.new_config # {} /\ l.current_config = Candidate(l) /\ l.had_hash
       /\ l.pointer # {}

\* C10: when the cached document is absent or cannot be read, the detector
\* goes on with an empty last-known document: the candidate, once built, is
\* classified as changed, and when no later step fails it is encrypted and
\* the config topic is set to the address of that encryption.
C10_UnreadableCacheIsChanged ==
    \A i \in Invocations :
       LET l == cycle[i] IN
       l.loaded = "failed" =>
          /\ l.current_config = EmptyDoc
          /\ (l.config_dashboard # {} /\ l.pc # "detect") =>
                /\ l.new_config # {}
                /\ l.branch = "changed"
          /\ (AtEnd(i) /\ ~l.failed) =>
                /\ l.enc_calls = 1
                /\ l.topic_ok = {ContentAddress(encrypt_message(Candidate(l), l.n))}
                /\ config_topic = l.topic_ok

\* a cycle that could not read a cached document that exists published the candidate
C10_Witness ==
    \E i \in Invocations :
       LET l == cycle[i] IN
       /\ AtEnd(i) /\ ~l.failed /\ l.loaded = "failed"
       /\ l.n > 1
       /\ l.topic_ok # {} /\ config_topic = l.topic_ok

\* the place of each statement in the order get_and_send_data executes them
\* (lines 48-64, with _get_states and _get_dashboard_and_services inlined at
\* line 55); the two branches of line 159 share their places
Position(pc) ==
    CASE pc = "idle"             -> 0
      [] pc = "clear"            -> 1
      [] pc = "keypair"          -> 2
      [] pc = "descriptions"     -> 3
      [] pc = "services"         -> 4
      [] pc = "load"             -> 5
      [] pc = "detect"           -> 6
      [] pc = "write_config"     -> 7
      [] pc = "encrypt_config"   -> 8
      [] pc = "read_cached"      -> 8
      [] pc = "stage_config"     -> 9
      [] pc = "upload_config"    -> 10
      [] pc = "set_config_topic" -> 11
      [] pc = "snapshot"         -> 12
      [] pc = "encrypt"          -> 13
      [] pc = "sleep"            -> 14
      [] pc = "stage"            -> 15
      [] pc = "upload"           -> 16
      [] pc = "datalog"          -> 17
      [] pc = "done"             -> 18
      [] OTHER                   -> 19

\* the phase a statement belongs to: 1 clear stale files (and make the
\* keypair), 2 configuration detection and publication, 3 snapshot collection,
\* 4 encryption, 5 staging, 6 upload, 7 ledger pointer write
Phase(pc) ==
    LET p == Position(pc) IN
    CASE p <= 2  -> 1
      [] p <= 11 -> 2
      [] p = 12  -> 3
      [] p <= 14 -> 4
      [] p = 15  -> 5
      [] p = 16  -> 6
      [] OTHER   -> 7

\* C11: within a cycle the phases run in the fixed order clear, configuration
\* detection and publication, snapshot collection, encryption, staging,
\* upload, pointer write, and no statement runs twice: a cycle starts with
\* the clearing, every step of it moves to a later statement of a phase that
\* is not earlier, and nothing is tried again.
C11_PhasesInOrderOnce ==
    [][\A i \in Invocations :
          cycle'[i] # cycle[i] =>
             \/ cycle[i].pc = "idle" /\ cycle'[i].pc = "clear"
             \/ cycle[i].pc = "done" /\ cycle'[i].pc = "idle"
             \/ /\ cycle[i].pc \notin {"idle", "done"}
                /\ Position(cycle[i].pc) < Position(cycle'[i].pc)
                /\ Phase(cycle[i].pc) <= Phase(cycle'[i].pc)
                /\ cycle'[i].n = cycle[i].n]_vars

\* a cycle went through every phase: it cleared, published the configuration,
\* collected, encrypted, staged, uploaded and wrote the pointer
C11_Witness ==
    \E i \in Invocations :
       LET l == cycle[i] IN
       /\ AtEnd(i) /\ l.cleared /\ l.sender_kp
       /\ l.topic_ok # {} /\ l.data # {} /\ l.encrypted_data # {}
       /\ l.filename # {} /\ l.ipfs_hash # {} /\ l.pointer # {}

\* the name starts with "data"
StartsWithData(name) ==
    /\ Len(name) >= Len(DataMarker)
    /\ \A k \in 1..Len(DataMarker) : name[k] = DataMarker[k]

\* C12: clearing removes exactly the files whose name starts with "data" and
\* leaves every other file present and unchanged: nothing is added, no file
\* without the marker is removed even when the clearing raises part-way, and
\* when it returns no file with the marker is left.
C12_ClearRemovesExactlyMarked ==
    \A r \in result :
       args.fn = "_clear_files" =>
          /\ r.files \subseteq args.files
          /\ \A f \in args.files : ~StartsWithData(f.name) => f \in r.files
          /\ ~r.raised => \A f \in r.files : ~StartsWithData(f.name)

\* {data_1, data_2, config_encrypted_x} was cleared: config_encrypted_x is left
C12_Witness ==
    \E r \in result :
       /\ args.fn = "_clear_files"
       /\ ~r.raised
       /\ args.files = {File(DataMarker \o <<"_", "1">>), File(DataMarker \o <<"_", "2">>),
                        File(ConfigMarker \o <<"_", "x">>)}
       /\ r.files = {File(ConfigMarker \o <<"_", "x">>)}

\* the entity has an owning device and a current state
Qualifies(e) == e.device_id # {} /\ e.state # {}

\* the device records of a snapshot
DevicesOf(snap) == DOMAIN snap \ {"twin_id"}

\* C13: an entity is in the snapshot if and only if it has an owning device
\* and a current state; it is then in the entity mapping of its owning device
\* and of no other; a device record exists only if one of its entities
\* qualifies, and holds only entities of the registry.
C13_EntityInSnapshotIffQualifies ==
    \A snap \in result :
       args.fn = "_get_states" =>
          LET entities == args.entities IN
          /\ \A k \in 1..Len(entities) :
                LET e == entities[k] IN
                /\ Qualifies(e) <=>
                      \E d \in DevicesOf(snap) : e.entity_id \in DOMAIN snap[d].entities
                /\ Qualifies(e) =>
                      \A d \in DevicesOf(snap) :
                         e.entity_id \in DOMAIN snap[d].entities <=> d \in e.device_id
          /\ \A d \in DevicesOf(snap) :
                /\ \E k \in 1..Len(entities) :
                      Qualifies(entities[k]) /\ d \in entities[k].device_id
                /\ \A id \in DOMAIN snap[d].entities :
                      \E k \in 1..Len(entities) : entities[k].entity_id = id

\* a snapshot of three entities: two of one device that qualify, one of the
\* other device that has no current state
C13_Witness ==
    \E snap \in result :
       /\ args.fn = "_get_states"
       /\ Len(args.entities) = 3
       /\ Qualifies(args.entities[1]) /\ Qualifies(args.entities[2])
       /\ args.entities[1].device_id = args.entities[2].device_id
       /\ args.entities[3].device_id # {} /\ args.entities[3].state = {}
       /\ args.entities[3].device_id # args.entities[1].device_id
       /\ Cardinality(DevicesOf(snap)) = 1
       /\ \A d \in DevicesOf(snap) : Cardinality(DOMAIN snap[d].entities) = 2

C15_TwinIdKeyReserved ==
    \A snap \in result :
       args.fn = "_get_states" =>
          /\ "twin_id" \in DOMAIN snap
          /\ snap["twin_id"] = TwinId
          /\ \A k \in 1..Len(args.entities) :
                Qualifies(args.entities[k]) =>
                   \A d \in args.entities[k].device_id :
                      /\ d # "twin_id"
                      /\ d \in DOMAIN snap
                      /\ snap[d].name = device_name(DeviceRegistry[d])
                      /\ args.entities[k].entity_id \in DOMAIN snap[d].entities

\* a snapshot holds the twin id next to the records of both devices
C15_Witness ==
    \E snap \in result :
       /\ args.fn = "_get_states"
       /\ DOMAIN snap = DeviceIds \cup {"twin_id"}
       /\ snap["twin_id"] = TwinId

\* C16: send_datalog_states succeeds in a cycle only if in that cycle the
\* clearing, the keypair, the snapshot collection, the encryption, the
\* staging and the upload all succeeded, and its argument is the address the
\* upload of that cycle returned for the encrypted snapshot of that cycle;
\* so a cycle in which one of these steps failed writes no pointer.
C16_PointerNeedsEveryTelemetryStep ==
    \A i \in Invocations :
       LET l == cycle[i] IN
       l.pointer # {} =>
          /\ l.cleared
          /\ l.sender_kp
          /\ l.data # {}
          /\ l.encrypted_data = {encrypt_message(d, l.n) : d \in l.data}
          /\ l.filename = {write_data_to_file(b, l.n, FALSE).name : b \in l.encrypted_data}
          /\ l.ipfs_hash = {ContentAddress(b) : b \in l.encrypted_data}
          /\ l.pointer = {[address |-> l.ipfs_hash]}

\* a cycle wrote its pointer although its configuration publication failed
C16_Witness ==
    \E i \in Invocations :
       LET l == cycle[i] IN
       /\ AtEnd(i) /\ l.pointer # {} /\ l.cleared /\ l.sender_kp
       /\ l.failed /\ l.topic_ok = {}

\* C17: at the end of every cycle, when a plaintext configuration document
\* is cached on disk, an encrypted blob is cached too and every cached blob
\* is an encryption of that document.
C17_CachedBlobMatchesCachedDocument ==
    \A i \in Invocations :
       (AtEnd(i) /\ config_file.st = "ok") =>
          /\ \E f \in config_encrypted : IsEncryptedConfig(f)
          /\ \A f \in config_encrypted :
                IsEncryptedConfig(f) => f.content.pt = config_file.doc

\* C18: at the end of every cycle, when a configuration address is recorded
\* under IPFS_HASH_CONFIG, the twin's config topic on the ledger is that
\* address.
C18_RecordedAddressIsOnLedger ==
    \A i \in Invocations :
       (AtEnd(i) /\ hass_data # {}) => config_topic = hass_data

\* C19: when a cycle is about to upload the telemetry file it staged, the
\* file is in the staging directory.
C19_StagedFilePresentAtUpload ==
    \A i \in Invocations :
       cycle[i].pc = "upload" =>
          \E f \in data_dir : f.name \in cycle[i].filename

\* the files of the staging directory whose name starts with "data"
StagedTelemetry == {f \in data_dir : StartsWithData(f.name)}

\* C20: with cycles that do not overlap, starting from an empty staging
\* directory, at most one telemetry file is staged at the end of every cycle
\* and between cycles, whatever steps failed.
C20_AtMostOneStagedFile ==
    (InFlight = {} \/ \E i \in Invocations : AtEnd(i)) =>
       Cardinality(StagedTelemetry) <= 1

\* a second cycle in a row has staged its file: the file of the cycle before
\* it, which had no failure, is gone
C20_Witness ==
    \E i \in Invocations : \E p \in prev :
       /\ AtEnd(i) /\ cycle[i].n > 1
       /\ ~p.failed
       /\ cycle[i].filename # {}
       /\ {f.name : f \in StagedTelemetry} = cycle[i].filename

\* the four validations in the order of the setup flow, with the error each reports
Validations == <<"seed", "address", "ledger", "in_sub">>

ReportedError(k) ==
    CASE k = 1 -> "invalid_sub_admin_seed"
      [] k = 2 -> "invalid_sub_owner_address"
      [] k = 3 -> "has_no_subscription"
      [] k = 4 -> "is_not_in_devices"

\* what validation number k finds for the submitted form
Finding(data, k) ==
    CASE k = 1 -> data.seed
      [] k = 2 -> data.address
      [] k = 3 -> data.ledger
      [] k = 4 -> data.in_sub

\* the validations that do not pass
NotPassing(data) == {k \in 1..4 : Finding(data, k) # "yes"}

\* C21: for a submitted credentials form, an entry is created if and only if
\* all four validations pass; the validations are called in the order seed,
\* owner address, subscription, devices, and none is called after the first
\* that does not pass; that one alone determines the error (its own error
\* when it says no, unknown when it raises); and on an error the form of the
\* step is shown again with exactly that error and no entry.
C21_EntryIffAllValidationsPass ==
    \A r \in result :
       (args.fn = "async_step_conf" /\ args.user_input # {}) =>
          /\ (r.type = "create_entry") <=> (NotPassing(args) = {})
          /\ (r.entry # {}) <=> (NotPassing(args) = {})
          /\ NotPassing(args) = {} =>
                /\ r.calls = Validations
                /\ r.errors = {}
                /\ r.entry = {[title |-> "Robonomics", data |-> args.user_input]}
          /\ \A k \in NotPassing(args) :
                (\A j \in NotPassing(args) : k <= j) =>
                   /\ r.calls = SubSeq(Validations, 1, k)
                   /\ r.type = "form" /\ r.step_id = "conf"
                   /\ r.entry = {}
                   /\ r.errors = {IF Finding(args, k) = "no" THEN ReportedError(k)
                                   ELSE "unknown"}

\* a form whose owner address is invalid, whose owner has no subscription
\* and whose last check would raise was answered with the address error
C21_Witness ==
    \E r \in result :
       /\ args.fn = "async_step_conf" /\ args.user_input # {}
       /\ args.seed = "yes" /\ args.address = "no"
       /\ args.ledger = "no" /\ args.in_sub = "raises"
       /\ r.type = "form" /\ r.errors = {"invalid_sub_owner_address"}
       /\ r.entry = {}

====
